---------------------------- MODULE Spec2Model ----------------------------
(***************************************************************************)
(* Investment calculator: the scenario lifecycle of the Home component     *)
(* (React state, the load and persist effects, the save / load / delete    *)
(* handlers) together with the remote scenario resource (GET / POST /      *)
(* DELETE routes), device storage and the requests in flight between them. *)
(*                                                                         *)
(* A state of the model is a committed render of Home.  The effects of a   *)
(* commit run in the step RunEffects, before any later event is handled.   *)
(* Rates are held in tenths of a percent (2.5 % is 25).                    *)
(***************************************************************************)
EXTENDS Integers, Sequences, FiniteSets, TLC

\* ------------------------------------------------------------------ bounds
\* The events of the user and of the session provider in a run.
MaxOps == 3
\* The largest numerator and denominator of a number the projection is
\* followed to; a number beyond it is Unknown.
MaxMagnitude == 1000000000

\* ------------------------------------------------------- program constants
MaxNameLen == 80
LocalListCap == 10

None == "none"
Null == "null"

Users == {"A", "B"}

\* ------------------------------------------------------------------ strings
\* A string is a sequence of runs [c, n]: n >= 1 copies of the character c,
\* adjacent runs holding different characters.
StrLen(s) == IF s = <<>> THEN 0 ELSE
    LET F[i \in 0..Len(s)] == IF i = 0 THEN 0 ELSE F[i - 1] + s[i].n
    IN  F[Len(s)]

IsSpace(c) == c = " "

RECURSIVE TrimStart(_)
TrimStart(s) ==
    IF s = <<>> THEN s
    ELSE IF IsSpace(s[1].c) THEN TrimStart(Tail(s)) ELSE s

RECURSIVE TrimEnd(_)
TrimEnd(s) ==
    IF s = <<>> THEN s
    ELSE IF IsSpace(s[Len(s)].c) THEN TrimEnd(SubSeq(s, 1, Len(s) - 1)) ELSE s

\* String.prototype.trim
Trim(s) == TrimEnd(TrimStart(s))

\* String.prototype.slice(0, k)
RECURSIVE Slice(_, _)
Slice(s, k) ==
    IF s = <<>> \/ k <= 0 THEN <<>>
    ELSE IF s[1].n >= k THEN << [c |-> s[1].c, n |-> k] >>
    ELSE << s[1] >> \o Slice(Tail(s), k - s[1].n)

Run(ch, k) == [c |-> ch, n |-> k]

\* What window.prompt may return: null when cancelled, else the text typed.
Answer(isNull, txt) == [null |-> isNull, text |-> txt]
PromptAnswers ==
    { Answer(TRUE, <<>>),
      Answer(FALSE, << Run(" ", 2) >>),
      Answer(FALSE, << Run(" ", 1), Run("p", 1), Run(" ", 1) >>),
      Answer(FALSE, << Run("x", MaxNameLen + 1) >>) }

\* ------------------------------------------------------------------- inputs
defaultInputs ==
    [ startingAmount |-> 10000,
      contributionAmount |-> 500,
      contributionFrequency |-> "monthly",
      annualGrowthRate |-> 80,
      inflationRate |-> 25,
      yearsToGrow |-> 20 ]

\* Number(value) of the string an input field delivers: NaN or a number.
Numeric(isNaN, x) == [nan |-> isNaN, num |-> x]
\* The edits of numeric fields the user makes: a field and what is typed.
FieldEdits ==
    { << "startingAmount", Numeric(TRUE, 0) >>,
      << "yearsToGrow", Numeric(FALSE, 0) >>,
      << "yearsToGrow", Numeric(FALSE, 20) >> }

\* ------------------------------------------------------------------ session
NoSession == [status |-> "unauthenticated", id |-> None, email |-> None]
UserSession(u) == [status |-> "authenticated", id |-> u, email |-> u]
Sessions == { NoSession } \cup { UserSession(u) : u \in Users }

GuestKey == << "scenarios", "guest" >>
KeyOf(sess) ==
    IF sess.email # None THEN << "scenarios", sess.email >> ELSE GuestKey
StorageKeys == { KeyOf(s) : s \in Sessions }

\* A createdAt value: an ISO-8601 string, a number of milliseconds (legacy
\* device data) or nothing.
Stamp(kind, t) == [kind |-> kind, t |-> t]
\* Date.prototype.toISOString of the instant t
ToISOString(t) == Stamp("iso", t)

\* The namespace a scenario is created under: a device storage key or the
\* remote store of a user.
RemoteOf(u) == << "user", u >>
NoOrigin == << "none", "none" >>

VARIABLES
    session,             \* useSession(): the identity the client sees
    inputs,              \* useState: InvestmentInputs
    scenarios,           \* useState: Scenario[]
    storageReady,        \* useState
    isLoadingScenarios,  \* useState
    scenarioError,       \* useState
    scenarioLoadError,   \* useState
    isSavingScenario,    \* useState
    ranLoadDeps,         \* dependencies of the load effect when it last ran
    ranPersistDeps,      \* dependencies of the persist effect when it last ran
    localStorage,        \* window.localStorage, by key
    db,                  \* prisma.scenario: the rows of the remote store
    net,                 \* the fetch requests in flight, oldest first
    clock,               \* instants and ids handed out so far
    origin,              \* history: the namespace each id was created under
    used                 \* history: the user and session events so far

vars == << session, inputs, scenarios, storageReady, isLoadingScenarios,
           scenarioError, scenarioLoadError, isSavingScenario, ranLoadDeps,
           ranPersistDeps, localStorage, db, net, clock, origin, used >>

react == << inputs, scenarios, storageReady, isLoadingScenarios,
            scenarioError, scenarioLoadError, isSavingScenario >>

\* Everything but the count of events.
others == << session, react, ranLoadDeps, ranPersistDeps, localStorage, db,
             net, clock, origin >>

isAuthenticated == session.status = "authenticated" /\ session.id # None
storageKey == KeyOf(session)


\* --------------------------------------------------------------------- JSON
\* JSON.stringify of a number: a finite number is written as it is, anything
\* else as null.
JSONNumber(x) == IF x \in Int THEN x ELSE Null

JSONInputs(inp) ==
    [ startingAmount |-> JSONNumber(inp.startingAmount),
      contributionAmount |-> JSONNumber(inp.contributionAmount),
      contributionFrequency |-> inp.contributionFrequency,
      annualGrowthRate |-> JSONNumber(inp.annualGrowthRate),
      inflationRate |-> JSONNumber(inp.inflationRate),
      yearsToGrow |-> JSONNumber(inp.yearsToGrow) ]

JSONScenario(s) ==
    [ id |-> s.id, name |-> s.name, createdAt |-> s.createdAt,
      inputs |-> JSONInputs(s.inputs) ]

\* A value of device storage: absent, a string the reader throws on (no JSON
\* text, or JSON text of a value that is no array), or the JSON text of a
\* list.
Raw(kind, list) == [kind |-> kind, json |-> list]
Absent == Raw("absent", <<>>)
Malformed == Raw("malformed", <<>>)

\* JSON.stringify(scenarios): the raw string kept in device storage.
JSONStringify(list) ==
    Raw("json", [i \in 1..Len(list) |-> JSONScenario(list[i])])

\* ------------------------------------------------------------ remote store
\* serialize(scenario) of the routes
serialize(row) ==
    [ id |-> row.id, name |-> row.name, inputs |-> row.inputs,
      createdAt |-> ToISOString(row.createdAt) ]

\* orderBy: { createdAt: "desc" }
RECURSIVE OrderByCreatedAtDesc(_)
OrderByCreatedAtDesc(rows) ==
    IF rows = {} THEN <<>>
    ELSE LET newest == CHOOSE r \in rows :
                           \A q \in rows : q.createdAt <= r.createdAt
         IN  << newest >> \o OrderByCreatedAtDesc(rows \ {newest})

\* prisma.scenario.findMany({ where: { userId }, orderBy })
FindMany(rows, userId) ==
    OrderByCreatedAtDesc({ r \in rows : r.userId = userId })

Response(st, b) == [status |-> st, body |-> b]
\* Response.ok
Ok(resp) == resp.status >= 200 /\ resp.status <= 299
NoBody == <<>>
unauthorized == Response(401, NoBody)
badRequest == Response(400, NoBody)
notFound == Response(404, NoBody)
\* No response yet; a fetch that rejects (transport failure).
Pending == Response(-1, NoBody)
Rejected == Response(0, NoBody)

\* GET /api/scenarios
GET(ident, rows) ==
    IF ident = None THEN unauthorized
    ELSE LET found == FindMany(rows, ident)
         IN  Response(200, [i \in 1..Len(found) |-> serialize(found[i])])

\* The name POST stores.
PostName(name) == Slice(Trim(name), MaxNameLen)

\* POST /api/scenarios: the response and the rows created.  The body is the
\* object the client sends: a string name and an inputs object.
POST(ident, body, newId, now) ==
    IF ident = None THEN [resp |-> unauthorized, rows |-> {}]
    ELSE IF Trim(body.name) = <<>>
    THEN [resp |-> badRequest, rows |-> {}]
    ELSE LET row == [ id |-> newId, name |-> PostName(body.name),
                      inputs |-> body.inputs, userId |-> ident,
                      createdAt |-> now ]
         IN  [resp |-> Response(201, serialize(row)), rows |-> {row}]

\* deleteMany with the owner left out of its where clause.
DeleteMatches_anyOwner(rows, id, userId) == { r \in rows : r.id = id }

\* The rows deleteMany({ where: { id, userId } }) removes.
DeleteMatches(rows, id, userId) ==
    { r \in rows : r.id = id /\ r.userId = userId }

\* DELETE /api/scenarios/{id}: the response and the rows left.
DELETE(ident, id, rows) ==
    IF ident = None
    THEN [resp |-> Response(401, NoBody), rows |-> rows]
    ELSE LET gone == DeleteMatches(rows, id, ident)
         IN  IF Cardinality(gone) = 0
             THEN [resp |-> notFound, rows |-> rows \ gone]
             ELSE [resp |-> Response(200, id), rows |-> rows \ gone]

\* ----------------------------------------------------------------- requests
Request(kind, ident) ==
    [ kind |-> kind, ident |-> ident, active |-> FALSE, name |-> <<>>,
      inputs |-> defaultInputs, id |-> 0, resp |-> Pending ]

\* fetch("/api/scenarios") of the load effect, with its closure's flag.
ListRequest(ident) == [Request("list", ident) EXCEPT !.active = TRUE]
\* fetch POST with body JSON.stringify({ name: trimmed, inputs })
SaveRequest(ident, trimmed, inp) ==
    [Request("save", ident) EXCEPT !.name = trimmed, !.inputs = JSONInputs(inp)]
\* fetch DELETE /api/scenarios/{id}
DeleteRequest(ident, id) == [Request("delete", ident) EXCEPT !.id = id]

RemoveAt(seq, i) == SubSeq(seq, 1, i - 1) \o SubSeq(seq, i + 1, Len(seq))

\* getServerSession(authOptions) for a request sent under identity u: that
\* session, or none when it has expired on the server.
ServerSessions(u) == { u, None }

\* -------------------------------------------------------------- React state
\* The state the setters act on, and its commit.
State ==
    [ inputs |-> inputs, scenarios |-> scenarios,
      storageReady |-> storageReady,
      isLoadingScenarios |-> isLoadingScenarios,
      scenarioError |-> scenarioError,
      scenarioLoadError |-> scenarioLoadError,
      isSavingScenario |-> isSavingScenario ]

Commit(st) ==
    /\ inputs' = st.inputs
    /\ scenarios' = st.scenarios
    /\ storageReady' = st.storageReady
    /\ isLoadingScenarios' = st.isLoadingScenarios
    /\ scenarioError' = st.scenarioError
    /\ scenarioLoadError' = st.scenarioLoadError
    /\ isSavingScenario' = st.isSavingScenario

SaveFailed == "We couldn't save this scenario. Please try again in a moment."
DeleteFailed == "Unable to delete this scenario right now."
LoadFailed == "Unable to load saved scenarios."

\* canSaveScenario without the in-flight guard.
canSaveScenario_unguarded == isAuthenticated \/ storageReady

canSaveScenario ==
    IF isAuthenticated THEN ~isSavingScenario
    ELSE storageReady /\ ~isSavingScenario

\* The ScenarioList section, with its Load and Remove buttons, is rendered.
ListShown == isAuthenticated \/ storageReady

\* ------------------------------------------------------------------ effects
LoadDeps == << isAuthenticated, storageKey >>
PersistDeps == << isAuthenticated, scenarios, storageReady, storageKey >>

\* The committed render has effects that have not run yet.
EffectsPending ==
    ranLoadDeps # << LoadDeps >> \/ ranPersistDeps # << PersistDeps >>

\* The cleanup of the load effect: active = false in the closure of the
\* fetch it started.
Cleanup(reqs) ==
    [i \in 1..Len(reqs) |->
        IF reqs[i].kind = "list" THEN [reqs[i] EXCEPT !.active = FALSE]
        ELSE reqs[i]]

\* parsed.map(...): a numeric createdAt becomes an ISO string, a missing one
\* the current instant.
Normalized(s, now) ==
    [s EXCEPT !.createdAt =
        IF @.kind = "number" THEN ToISOString(@.t)
        ELSE IF @.kind = "missing" THEN ToISOString(now)
        ELSE @]

\* The list the local branch of the load effect sets from the raw value.
LocalList(raw, now) ==
    IF raw.kind = "json"
    THEN [i \in 1..Len(raw.json) |-> Normalized(raw.json[i], now)]
    ELSE <<>>

\* Load effect, remote branch: the state set when the fetch is started.
LoadRemoteStart(st) ==
    [st EXCEPT !.isLoadingScenarios = TRUE, !.scenarioLoadError = Null]

\* The local branch raising the parse failure as a load error.
LoadLocal_raises(st, raw, now) ==
    [st EXCEPT !.scenarios = LocalList(raw, now),
               !.scenarioLoadError =
                   IF raw.kind = "malformed" THEN LoadFailed ELSE Null,
               !.storageReady = TRUE]

\* Load effect, local branch.
LoadLocal(st, raw, now) ==
    [st EXCEPT !.scenarios = LocalList(raw, now),
               !.scenarioLoadError = Null,
               !.storageReady = TRUE]

\* The persist effect writes (it returns early otherwise).
PersistWrites == ~(isAuthenticated \/ ~storageReady)

\* The fetch callbacks without the check of the active flag.
ListSettled_unchecked(st, active, resp) ==
    IF Ok(resp)
    THEN [st EXCEPT !.scenarios = resp.body,
                    !.isLoadingScenarios = FALSE,
                    !.storageReady = TRUE]
    ELSE [st EXCEPT !.scenarioLoadError = LoadFailed,
                    !.scenarios = <<>>,
                    !.isLoadingScenarios = FALSE,
                    !.storageReady = TRUE]

\* The catch handler leaving the list it found and raising no error.
ListSettled_silent(st, active, resp) ==
    IF ~active THEN st
    ELSE IF Ok(resp)
    THEN [st EXCEPT !.scenarios = resp.body,
                    !.isLoadingScenarios = FALSE,
                    !.storageReady = TRUE]
    ELSE [st EXCEPT !.isLoadingScenarios = FALSE,
                    !.storageReady = TRUE]

\* .then / .catch / .finally of the load effect's fetch.
ListSettled(st, active, resp) ==
    IF ~active THEN st
    ELSE IF Ok(resp)
    THEN [st EXCEPT !.scenarios = resp.body,
                    !.isLoadingScenarios = FALSE,
                    !.storageReady = TRUE]
    ELSE [st EXCEPT !.scenarioLoadError = LoadFailed,
                    !.scenarios = <<>>,
                    !.isLoadingScenarios = FALSE,
                    !.storageReady = TRUE]

\* The saved scenario appended instead of prepended.
SaveSettled_appends(st, resp) ==
    IF Ok(resp)
    THEN [st EXCEPT !.scenarios = @ \o << resp.body >>,
                    !.isSavingScenario = FALSE]
    ELSE [st EXCEPT !.scenarioError = SaveFailed,
                    !.isSavingScenario = FALSE]

\* The guard released on success only (no finally).
SaveSettled_keepsGuard(st, resp) ==
    IF Ok(resp)
    THEN [st EXCEPT !.scenarios = << resp.body >> \o @,
                    !.isSavingScenario = FALSE]
    ELSE [st EXCEPT !.scenarioError = SaveFailed]

\* handleSaveScenario after the await: try / catch / finally.
SaveSettled(st, resp) ==
    IF Ok(resp)
    THEN [st EXCEPT !.scenarios = << resp.body >> \o @,
                    !.isSavingScenario = FALSE]
    ELSE [st EXCEPT !.scenarioError = SaveFailed,
                    !.isSavingScenario = FALSE]

\* The filter with its test inverted.
WithoutId_inverted(list, id) == SelectSeq(list, LAMBDA s : s.id = id)

\* prev.filter((scenario) => scenario.id !== id)
WithoutId(list, id) == SelectSeq(list, LAMBDA s : s.id # id)

\* The entry removed before the status of the response is looked at.
DeleteSettled_optimistic(st, id, resp) ==
    IF Ok(resp)
    THEN [st EXCEPT !.scenarios = SelectSeq(@, LAMBDA s : s.id # id)]
    ELSE [st EXCEPT !.scenarios = SelectSeq(@, LAMBDA s : s.id # id),
                    !.scenarioError = DeleteFailed]

\* handleDeleteScenario after the await: try / catch.
DeleteSettled(st, id, resp) ==
    IF Ok(resp)
    THEN [st EXCEPT !.scenarios = WithoutId(@, id)]
    ELSE [st EXCEPT !.scenarioError = DeleteFailed]

\* [newScenario, ...prev] without the slice.
SavedLocally_uncut(list, newScenario) == << newScenario >> \o list

\* [newScenario, ...prev].slice(0, 10)
SavedLocally(list, newScenario) ==
    SubSeq(<< newScenario >> \o list, 1,
           IF Len(list) + 1 < LocalListCap THEN Len(list) + 1 ELSE LocalListCap)

\* --------------------------------------------------------------------- Init
\* Device data written by an earlier version: a numeric createdAt.
LegacyList ==
    << [ id |-> 0, name |-> << Run("o", 1) >>,
         createdAt |-> Stamp("number", 0), inputs |-> defaultInputs ] >>

\* Device data of a guest who has saved as many scenarios as the list keeps,
\* newest first.
FullList ==
    [ i \in 1..LocalListCap |->
        [ id |-> 1 - i, name |-> << Run("o", 1) >>,
          createdAt |-> ToISOString(1 - i), inputs |-> defaultInputs ] ]

InitialGuestData == { Absent, Malformed, Raw("json", LegacyList) }

\* The ids in use: 0 and below for the entries found in device storage, then
\* one per scenario created.
Ids == (1 - LocalListCap)..MaxOps

\* The state after construction, on a device whose guest storage holds raw.
Mounted(raw) ==
    /\ session = NoSession
    /\ inputs = defaultInputs
    /\ scenarios = <<>>
    /\ storageReady = FALSE
    /\ isLoadingScenarios = FALSE
    /\ scenarioError = Null
    /\ scenarioLoadError = Null
    /\ isSavingScenario = FALSE
    /\ ranLoadDeps = <<>>
    /\ ranPersistDeps = <<>>
    /\ localStorage = [k \in StorageKeys |->
                          IF k = GuestKey THEN raw ELSE Absent]
    /\ origin = [i \in Ids |->
                    IF \E k \in 1..Len(raw.json) : raw.json[k].id = i
                    THEN GuestKey
                    ELSE NoOrigin]
    /\ db = {}
    /\ net = <<>>
    /\ clock = 0
    /\ used = 0

Init == \E raw \in InitialGuestData : Mounted(raw)

\* ------------------------------------------------------------------ actions
\* The effects of the committed render: the load effect when its
\* dependencies changed (cleanup of the previous run first), then the persist
\* effect when its dependencies changed, both on the values of this render.
RunEffects ==
    /\ EffectsPending
    /\ LET runLoad == ranLoadDeps # << LoadDeps >>
           runPersist == ranPersistDeps # << PersistDeps >>
       IN  /\ IF runLoad /\ isAuthenticated
              THEN /\ net' = Append(Cleanup(net), ListRequest(session.id))
                   /\ Commit(LoadRemoteStart(State))
              ELSE IF runLoad
              THEN /\ net' = Cleanup(net)
                   /\ Commit(LoadLocal(State, localStorage[storageKey], clock))
              ELSE /\ net' = net
                   /\ Commit(State)
           /\ localStorage' =
                 IF runPersist /\ PersistWrites
                 THEN [localStorage EXCEPT ![storageKey] = JSONStringify(scenarios)]
                 ELSE localStorage
    /\ ranLoadDeps' = << LoadDeps >>
    /\ ranPersistDeps' = << PersistDeps >>
    /\ UNCHANGED << session, db, clock, origin, used >>

\* useSession() delivers another session: sign-in, sign-out, another account.
SessionChange(s) ==
    /\ ~EffectsPending
    /\ s # session
    /\ used < MaxOps
    /\ session' = s
    /\ used' = used + 1
    /\ UNCHANGED << react, ranLoadDeps, ranPersistDeps, localStorage, db, net,
                    clock, origin >>

\* handleInputChange(field, value)
HandleInputChange(field, value) ==
    /\ ~EffectsPending
    /\ used < MaxOps
    /\ used' = used + 1
    /\ inputs' = [inputs EXCEPT ![field] = IF value.nan THEN @ ELSE value.num]
    /\ UNCHANGED << session, scenarios, storageReady, isLoadingScenarios,
                    scenarioError, scenarioLoadError, isSavingScenario,
                    ranLoadDeps, ranPersistDeps, localStorage, db, net, clock,
                    origin >>

\* handleFrequencyChange(value)
HandleFrequencyChange(value) ==
    /\ ~EffectsPending
    /\ used < MaxOps
    /\ used' = used + 1
    /\ inputs' = [inputs EXCEPT !.contributionFrequency = value]
    /\ UNCHANGED << session, scenarios, storageReady, isLoadingScenarios,
                    scenarioError, scenarioLoadError, isSavingScenario,
                    ranLoadDeps, ranPersistDeps, localStorage, db, net, clock,
                    origin >>

\* The "Reset inputs" button: setInputs(defaultInputs)
ResetInputs ==
    /\ ~EffectsPending
    /\ used < MaxOps
    /\ used' = used + 1
    /\ inputs' = defaultInputs
    /\ UNCHANGED << session, scenarios, storageReady, isLoadingScenarios,
                    scenarioError, scenarioLoadError, isSavingScenario,
                    ranLoadDeps, ranPersistDeps, localStorage, db, net, clock,
                    origin >>

\* The scenario the local branch of handleSaveScenario builds.
NewScenario(id, trimmed, now, inp) ==
    [ id |-> id, name |-> trimmed, createdAt |-> ToISOString(now),
      inputs |-> inp ]

\* handleSaveScenario, from the click on the enabled "Save scenario" button
\* to its first await (remote) or to its end (local).
HandleSaveScenario(answer) ==
    /\ ~EffectsPending
    /\ canSaveScenario
    /\ used < MaxOps
    /\ used' = used + 1
    /\ IF answer.null \/ answer.text = <<>> \/ Trim(answer.text) = <<>>
       THEN UNCHANGED others
       ELSE LET trimmed == Trim(answer.text) IN
            IF isAuthenticated
            THEN /\ net' = Append(net, SaveRequest(session.id, trimmed, inputs))
                 /\ Commit([State EXCEPT !.isSavingScenario = TRUE,
                                         !.scenarioError = Null])
                 /\ UNCHANGED << session, ranLoadDeps, ranPersistDeps,
                                 localStorage, db, clock, origin >>
            ELSE IF ~storageReady
            THEN UNCHANGED others
            ELSE /\ Commit([State EXCEPT !.scenarios =
                               SavedLocally(@, NewScenario(clock + 1, trimmed,
                                                           clock + 1, inputs))])
                 /\ clock' = clock + 1
                 /\ origin' = [origin EXCEPT ![clock + 1] = storageKey]
                 /\ UNCHANGED << session, ranLoadDeps, ranPersistDeps,
                                 localStorage, db, net >>

ShownIds == { scenarios[i].id : i \in 1..Len(scenarios) }

\* scenarios.find((item) => item.id === id)
Find(list, id) ==
    LET hits == { i \in 1..Len(list) : list[i].id = id }
    IN  CHOOSE i \in hits : \A j \in hits : i <= j

\* The found scenario merged into the inputs, the horizon kept.
LoadedInputs_merged(list, inp, id) ==
    IF \E i \in 1..Len(list) : list[i].id = id
    THEN [list[Find(list, id)].inputs EXCEPT !.yearsToGrow = inp.yearsToGrow]
    ELSE inp

\* The inputs handleLoadScenario(id) leaves: if (!scenario) return;
\* setInputs({ ...scenario.inputs })
LoadedInputs(list, inp, id) ==
    IF \E i \in 1..Len(list) : list[i].id = id
    THEN list[Find(list, id)].inputs
    ELSE inp

\* handleLoadScenario(id), from a "Load scenario" button of the list.
HandleLoadScenario(id) ==
    /\ ~EffectsPending
    /\ ListShown
    /\ id \in ShownIds
    /\ used < MaxOps
    /\ used' = used + 1
    /\ inputs' = LoadedInputs(scenarios, inputs, id)
    /\ UNCHANGED << session, scenarios, storageReady, isLoadingScenarios,
                    scenarioError, scenarioLoadError, isSavingScenario,
                    ranLoadDeps, ranPersistDeps, localStorage, db, net, clock,
                    origin >>

\* handleDeleteScenario(id), from a "Remove" button of the list, to its
\* first await (remote) or to its end (local).
HandleDeleteScenario(id, confirmed) ==
    /\ ~EffectsPending
    /\ ListShown
    /\ id \in ShownIds
    /\ used < MaxOps
    /\ used' = used + 1
    /\ IF ~confirmed
       THEN UNCHANGED others
       ELSE IF isAuthenticated
       THEN /\ net' = Append(net, DeleteRequest(session.id, id))
            /\ Commit([State EXCEPT !.scenarioError = Null])
            /\ UNCHANGED << session, ranLoadDeps, ranPersistDeps,
                            localStorage, db, clock, origin >>
       ELSE /\ Commit([State EXCEPT !.scenarios = WithoutId(@, id)])
            /\ UNCHANGED << session, ranLoadDeps, ranPersistDeps,
                            localStorage, db, net, clock, origin >>

\* What may come back for a request: the route's answer, or a fetch that
\* rejects without having reached the route.
Faults == { "none", "reject" }
Answered(fault, routed) == IF fault = "none" THEN routed ELSE Rejected

\* The remote resource handles request i.
ServerHandle(i) ==
    /\ i \in 1..Len(net)
    /\ net[i].resp = Pending
    /\ \E fault \in Faults, ident \in ServerSessions(net[i].ident) :
         LET req == net[i] IN
         IF req.kind = "list"
         THEN /\ net' = [net EXCEPT ![i].resp =
                            Answered(fault, GET(ident, db))]
              /\ UNCHANGED << db, clock, origin >>
         ELSE IF req.kind = "save"
         THEN LET out == IF fault = "none"
                         THEN POST(ident,
                                   [name |-> req.name, inputs |-> req.inputs],
                                   clock + 1, clock + 1)
                         ELSE [resp |-> Answered(fault, Pending), rows |-> {}]
              IN  /\ net' = [net EXCEPT ![i].resp = out.resp]
                  /\ db' = db \cup out.rows
                  /\ clock' = clock + Cardinality(out.rows)
                  /\ origin' = IF out.rows = {} THEN origin
                               ELSE [origin EXCEPT ![clock + 1] =
                                        RemoteOf(ident)]
         ELSE LET out == IF fault = "none"
                         THEN DELETE(ident, req.id, db)
                         ELSE [resp |-> Answered(fault, Pending), rows |-> db]
              IN  /\ net' = [net EXCEPT ![i].resp = out.resp]
                  /\ db' = out.rows
                  /\ UNCHANGED << clock, origin >>
    /\ UNCHANGED << session, react, ranLoadDeps, ranPersistDeps, localStorage,
                    used >>

\* The response of request i reaches the client and the code after the
\* fetch runs.
Settle(i, kind) ==
    /\ ~EffectsPending
    /\ i \in 1..Len(net)
    /\ net[i].kind = kind
    /\ net[i].resp # Pending
    /\ net' = RemoveAt(net, i)
    /\ UNCHANGED << session, ranLoadDeps, ranPersistDeps, localStorage, db,
                    clock, origin, used >>

CompleteList(i) ==
    /\ Settle(i, "list")
    /\ Commit(ListSettled(State, net[i].active, net[i].resp))

CompleteSave(i) ==
    /\ Settle(i, "save")
    /\ Commit(SaveSettled(State, net[i].resp))

CompleteDelete(i) ==
    /\ Settle(i, "delete")
    /\ Commit(DeleteSettled(State, net[i].id, net[i].resp))

MaxNet == MaxOps

Next ==
    \/ RunEffects
    \/ \E s \in Sessions : SessionChange(s)
    \/ \E e \in FieldEdits : HandleInputChange(e[1], e[2])
    \/ \E v \in {"annual", "monthly"} : HandleFrequencyChange(v)
    \/ ResetInputs
    \/ \E a \in PromptAnswers : HandleSaveScenario(a)
    \/ \E id \in Ids : HandleLoadScenario(id)
    \/ \E id \in Ids, c \in BOOLEAN : HandleDeleteScenario(id, c)
    \/ \E i \in 1..MaxNet : ServerHandle(i)
    \/ \E i \in 1..MaxNet : CompleteList(i)
    \/ \E i \in 1..MaxNet : CompleteSave(i)
    \/ \E i \in 1..MaxNet : CompleteDelete(i)

Spec == Init /\ [][Next]_vars

\* The program of a visitor who never signs in, on a device whose guest list
\* is full: the session stays absent and no request is sent.
GuestInit == Mounted(Raw("json", FullList))

GuestNext ==
    \/ RunEffects
    \/ \E e \in FieldEdits : HandleInputChange(e[1], e[2])
    \/ \E v \in {"annual", "monthly"} : HandleFrequencyChange(v)
    \/ ResetInputs
    \/ \E a \in PromptAnswers : HandleSaveScenario(a)
    \/ \E id \in Ids : HandleLoadScenario(id)
    \/ \E id \in Ids, c \in BOOLEAN : HandleDeleteScenario(id, c)

GuestSpec == GuestInit /\ [][GuestNext]_vars

\* ------------------------------------------------------------------ numbers
\* The numbers of the projection are exact fractions num / den in lowest
\* terms, den > 0.  The rounding of floating-point arithmetic is not
\* modelled: a number whose numerator or denominator would pass
\* MaxMagnitude is Unknown, and so is every number computed from it.
Unknown == [num |-> 0, den |-> 0]
Known(x) == x.den # 0
Num(n) == [num |-> n, den |-> 1]

Abs(n) == IF n < 0 THEN 0 - n ELSE n
Small(n) == Abs(n) <= MaxMagnitude
FitsProduct(a, b) == a = 0 \/ b = 0 \/ Abs(a) <= MaxMagnitude \div Abs(b)

RECURSIVE GCD(_, _)
GCD(a, b) == IF b = 0 THEN a ELSE GCD(b, a % b)

\* n / d for integers n and d # 0
Ratio(n, d) ==
    LET g == GCD(Abs(n), Abs(d))
        sign == IF d < 0 THEN 0 - 1 ELSE 1
    IN  [num |-> sign * (n \div g), den |-> sign * (d \div g)]

\* a + b, over the least common denominator
Plus(a, b) ==
    IF ~Known(a) \/ ~Known(b) THEN Unknown
    ELSE LET g == GCD(a.den, b.den)
             ma == b.den \div g
             mb == a.den \div g
         IN  IF ~( /\ FitsProduct(a.num, ma) /\ FitsProduct(b.num, mb)
                   /\ FitsProduct(a.den, ma) ) THEN Unknown
             ELSE LET n == a.num * ma + b.num * mb
                  IN  IF Small(n) THEN Ratio(n, a.den * ma) ELSE Unknown

\* a * b, the common factors taken out first
Times(a, b) ==
    IF ~Known(a) \/ ~Known(b) THEN Unknown
    ELSE LET g1 == GCD(Abs(a.num), b.den)
             g2 == GCD(Abs(b.num), a.den)
             n1 == a.num \div g1
             n2 == b.num \div g2
             d1 == a.den \div g2
             d2 == b.den \div g1
         IN  IF ~(FitsProduct(n1, n2) /\ FitsProduct(d1, d2)) THEN Unknown
             ELSE Ratio(n1 * n2, d1 * d2)

\* a / b: a division by zero gives no finite number.
Over(a, b) ==
    IF ~Known(a) \/ ~Known(b) \/ b.num = 0 THEN Unknown
    ELSE Times(a, Ratio(b.den, b.num))

\* a > 0
Positive(a) == Known(a) /\ a.num > 0

\* b - a is known and not negative: a <= b.
AtMost(a, b) ==
    LET d == Plus(b, Times(Num(0 - 1), a))
    IN  Known(d) /\ d.num >= 0
Comparable(a, b) == Known(Plus(b, Times(Num(0 - 1), a)))

\* The number held in a rate field: the field holds tenths of a percent.
Rate(r) == Ratio(r, 10)

\* --------------------------------------------------------------- projection
monthlyGrowthRate(inp) == Over(Over(Rate(inp.annualGrowthRate), Num(100)), Num(12))
monthlyInflationRate(inp) == Over(Over(Rate(inp.inflationRate), Num(100)), Num(12))

\* totalContributions counted from 0 instead of from the starting amount.
Totals_fromZero(inp) ==
    [ balance |-> Num(inp.startingAmount),
      totalContributions |-> Num(0),
      inflationFactor |-> Num(1),
      contributionThisYear |-> Num(0),
      growthThisYear |-> Num(0) ]

\* let balance, totalContributions, inflationFactor before the loop
Totals(inp) ==
    [ balance |-> Num(inp.startingAmount),
      totalContributions |-> Num(inp.startingAmount),
      inflationFactor |-> Num(1),
      contributionThisYear |-> Num(0),
      growthThisYear |-> Num(0) ]

\* The annual contribution made in every month of the year.
Contribution_everyMonth(inp, month) == Num(inp.contributionAmount)

\* const contribution of a month
Contribution(inp, month) ==
    IF inp.contributionFrequency = "monthly" THEN Num(inp.contributionAmount)
    ELSE IF month = 1 THEN Num(inp.contributionAmount)
    ELSE Num(0)

\* if (contribution > 0) { ... } without its totalContributions line.
Contribute_untallied(acc, contribution) ==
    IF Positive(contribution)
    THEN [acc EXCEPT !.balance = Plus(@, contribution),
                     !.contributionThisYear = Plus(@, contribution)]
    ELSE acc

\* if (contribution > 0) { ... }
Contribute(acc, contribution) ==
    IF Positive(contribution)
    THEN [acc EXCEPT !.balance = Plus(@, contribution),
                     !.contributionThisYear = Plus(@, contribution),
                     !.totalContributions = Plus(@, contribution)]
    ELSE acc

\* The growth of a month taken off the balance instead of added to it.
Grow_shrinks(acc, rate) ==
    LET growth == Times(acc.balance, rate)
    IN  [acc EXCEPT !.balance = Plus(@, Times(Num(0 - 1), growth)),
                    !.growthThisYear = Plus(@, growth)]

\* const growth = balance * monthlyGrowthRate; balance += growth; ...
Grow(acc, rate) ==
    LET growth == Times(acc.balance, rate)
    IN  [acc EXCEPT !.balance = Plus(@, growth),
                    !.growthThisYear = Plus(@, growth)]

\* The inflation factor compounded whatever the sign of the rate.
Inflate_unguarded(acc, rate) ==
    [acc EXCEPT !.inflationFactor = Times(@, Plus(Num(1), rate))]

\* if (monthlyInflationRate > 0) { inflationFactor *= 1 + rate }
Inflate(acc, rate) ==
    IF Positive(rate)
    THEN [acc EXCEPT !.inflationFactor = Times(@, Plus(Num(1), rate))]
    ELSE acc

\* The body of the loop over the months.
MonthStep(inp, acc, month) ==
    Inflate(Grow(Contribute(acc, Contribution(inp, month)),
                 monthlyGrowthRate(inp)),
            monthlyInflationRate(inp))

\* for (let month = 1; month <= 12; month++)
RECURSIVE Months(_, _, _)
Months(inp, acc, month) ==
    IF month <= 12 THEN Months(inp, MonthStep(inp, acc, month), month + 1)
    ELSE acc

\* rows.push({ ... })
Snapshot(year, acc) ==
    [ year |-> year,
      contribution |-> acc.contributionThisYear,
      growth |-> acc.growthThisYear,
      balance |-> acc.balance,
      totalContributions |-> acc.totalContributions,
      realBalance |-> Over(acc.balance, acc.inflationFactor) ]

\* The loop over the years stopping one year short.
InHorizon_exclusive(year, inp) == year < inp.yearsToGrow

\* year <= inputs.yearsToGrow
InHorizon(year, inp) == year <= inp.yearsToGrow

\* for (let year = 1; year <= inputs.yearsToGrow; year++): the rows and the
\* totals when the loop ends.
RECURSIVE Years(_, _, _, _)
Years(inp, acc, year, rows) ==
    IF InHorizon(year, inp)
    THEN LET done == Months(inp, [acc EXCEPT !.contributionThisYear = Num(0),
                                            !.growthThisYear = Num(0)], 1)
         IN  Years(inp, done, year + 1, Append(rows, Snapshot(year, done)))
    ELSE [rows |-> rows, totals |-> acc]

\* The callback with 0 in place of the fallback to the starting amount.
Summary_noFallback(inp) ==
    LET out == Years(inp, Totals(inp), 1, <<>>)
        rows == out.rows
        finalBalance == IF rows # <<>> THEN rows[Len(rows)].balance
                        ELSE Num(0)
        finalRealBalance == IF rows # <<>> THEN rows[Len(rows)].realBalance
                            ELSE finalBalance
    IN  [ rows |-> rows,
          finalBalance |-> finalBalance,
          finalRealBalance |-> finalRealBalance,
          totalContributions |-> out.totals.totalContributions,
          totalGrowth |-> Plus(finalBalance,
                               Times(Num(0 - 1),
                                     out.totals.totalContributions)) ]

\* The callback of useMemo(..., [inputs])
Summary(inp) ==
    LET out == Years(inp, Totals(inp), 1, <<>>)
        rows == out.rows
        finalBalance == IF rows # <<>> THEN rows[Len(rows)].balance
                        ELSE Num(inp.startingAmount)
        finalRealBalance == IF rows # <<>> THEN rows[Len(rows)].realBalance
                            ELSE finalBalance
    IN  [ rows |-> rows,
          finalBalance |-> finalBalance,
          finalRealBalance |-> finalRealBalance,
          totalContributions |-> out.totals.totalContributions,
          totalGrowth |-> Plus(finalBalance,
                               Times(Num(0 - 1),
                                     out.totals.totalContributions)) ]

\* The memo of the committed render.
summary == Summary(inputs)

\* ------------------------------------------------ the projection on its own
\* The values typed into the fields (rates in tenths of a percent).
StartingAmounts == { 0 - 10, 0, 10, 10000 }
ContributionAmounts == { 0 - 5, 0, 5, 500 }
GrowthRates == { 0 - 12000, 0, 80, 6000, 12000 }
InflationRates == { 0 - 25, 0, 25, 12000 }
YearsToGrow == { 0 - 1, 0, 1, 2, 3 }

ProjectionInputs ==
    [ startingAmount : StartingAmounts,
      contributionAmount : ContributionAmounts,
      contributionFrequency : {"annual", "monthly"},
      annualGrowthRate : GrowthRates,
      inflationRate : InflationRates,
      yearsToGrow : YearsToGrow ]

ProjectionEdits ==
    { << "startingAmount", Numeric(FALSE, v) >> : v \in StartingAmounts }
    \cup { << "contributionAmount", Numeric(FALSE, v) >> :
               v \in ContributionAmounts }
    \cup { << "annualGrowthRate", Numeric(FALSE, v) >> : v \in GrowthRates }
    \cup { << "inflationRate", Numeric(FALSE, v) >> : v \in InflationRates }
    \cup { << "yearsToGrow", Numeric(FALSE, v) >> : v \in YearsToGrow }

\* A visitor who never signs in, with an empty list and the effects of the
\* mount run, after editing the fields to the values of inp.
ProjectionInit ==
    /\ session = NoSession
    /\ inputs \in ProjectionInputs
    /\ scenarios = <<>>
    /\ storageReady = TRUE
    /\ isLoadingScenarios = FALSE
    /\ scenarioError = Null
    /\ scenarioLoadError = Null
    /\ isSavingScenario = FALSE
    /\ ranLoadDeps = << LoadDeps >>
    /\ ranPersistDeps = << PersistDeps >>
    /\ localStorage = [k \in StorageKeys |->
                          IF k = GuestKey THEN JSONStringify(<<>>)
                          ELSE Absent]
    /\ origin = [i \in Ids |-> NoOrigin]
    /\ db = {}
    /\ net = <<>>
    /\ clock = 0
    /\ used = 0

ProjectionNext ==
    \/ \E e \in ProjectionEdits : HandleInputChange(e[1], e[2])
    \/ \E v \in {"annual", "monthly"} : HandleFrequencyChange(v)
    \/ ResetInputs

ProjectionSpec == ProjectionInit /\ [][ProjectionNext]_vars

\* ------------------------------------------------- the routes on their own
\* The remote resource as any HTTP client meets it: a request of any kind,
\* under any identity or none, for any id, is sent, handled by its route
\* (ServerHandle) and answered.
Senders == Users \cup { None }
SentNames == { << Run("p", 1) >>, << Run("x", MaxNameLen + 1) >> }
AnyRequests ==
    { ListRequest(u) : u \in Senders }
    \cup { SaveRequest(u, n, defaultInputs) : u \in Senders, n \in SentNames }
    \cup { DeleteRequest(u, id) : u \in Senders, id \in Ids }

ClientSends(req) ==
    /\ net = <<>>
    /\ req.kind = "save" => clock < MaxOps
    /\ net' = << req >>
    /\ UNCHANGED << session, react, ranLoadDeps, ranPersistDeps, localStorage,
                    db, clock, origin, used >>

ClientReceives ==
    /\ net # <<>>
    /\ net[1].resp # Pending
    /\ net' = Tail(net)
    /\ UNCHANGED << session, react, ranLoadDeps, ranPersistDeps, localStorage,
                    db, clock, origin, used >>

RouteInit == Mounted(Absent)

RouteNext ==
    \/ \E req \in AnyRequests : ClientSends(req)
    \/ ServerHandle(1)
    \/ ClientReceives

RouteSpec == RouteInit /\ [][RouteNext]_vars

\* ------------------------------------------------------ notions of the claims
\* The namespace of the current mode: the remote store of the identity, or
\* the device storage key.
CurrentNamespace ==
    IF isAuthenticated THEN RemoteOf(session.id) ELSE storageKey

\* A list fetch of the current mode is outstanding.
Loading == \E i \in 1..Len(net) : net[i].kind = "list" /\ net[i].active

\* The controller is Ready for the current mode: its effects have run and the
\* list of the mode has been read (guest) or its fetch has settled (remote).
Ready ==
    /\ ~EffectsPending
    /\ storageReady
    /\ isAuthenticated => ~Loading

NumSaves(reqs) == Cardinality({ i \in 1..Len(reqs) : reqs[i].kind = "save" })

\* The contents of the current mode's store, as list() delivers them.
StoreContents ==
    IF isAuthenticated THEN GET(session.id, db).body
    ELSE LocalList(localStorage[storageKey], clock)

FromCurrentNamespace(list) ==
    \A i \in 1..Len(list) : origin[list[i].id] = CurrentNamespace

\* Request i settles in this step: its response reaches the client.
Settles(i, kind) ==
    /\ i \in 1..Len(net)
    /\ net[i].kind = kind
    /\ net[i].resp # Pending
    /\ net' = RemoveAt(net, i)

RECURSIVE CharAt(_, _)
CharAt(s, i) == IF i <= s[1].n THEN s[1].c ELSE CharAt(Tail(s), i - s[1].n)

\* p is the text of s cut to its first k characters.
IsCutTo(p, s, k) ==
    /\ StrLen(p) = (IF StrLen(s) < k THEN StrLen(s) ELSE k)
    /\ \A i \in 1..StrLen(p) : CharAt(p, i) = CharAt(s, i)

SameText(p, s) == IsCutTo(p, s, StrLen(s))

\* list `new` is list `old` without the entries of that id: the others are
\* all there, unchanged and in the same order.
Removed(old, new, id) ==
    LET keep == { i \in 1..Len(old) : old[i].id # id }
    IN  /\ Len(new) = Cardinality(keep)
        /\ \A i \in 1..Len(new) : new[i].id # id
        /\ \A i \in keep : new[Cardinality({ j \in keep : j <= i })] = old[i]

\* ------------------------------------------------------------------- claims
\* C1: a scenario persisted under one identity never appears in another
\* mode's list: in guest mode, once the effects have run, every entry of the
\* in-memory list and of the guest's device storage was created under the
\* guest's own namespace (a remote save settling after the switch to guest
\* adds nothing to either).
C1_NoLeakIntoGuest ==
    (~EffectsPending /\ ~isAuthenticated) =>
        /\ FromCurrentNamespace(scenarios)
        /\ FromCurrentNamespace(localStorage[storageKey].json)

\* C2: in authenticated mode, with no store operation in flight and the last
\* list load successful, the in-memory list is the server's list of the
\* current identity, newest first.
C2_ListMirrorsServer ==
    ( /\ isAuthenticated
      /\ ~EffectsPending
      /\ net = <<>>
      /\ storageReady /\ ~isLoadingScenarios
      /\ scenarioLoadError = Null )
    => scenarios = GET(session.id, db).body

\* C3: once a mode switch has finished re-initializing (Ready, the list load
\* successful, no store operation in flight), the visible list is exactly the
\* new mode's store contents and holds no entry of another mode's store.
C3_ListIsNewModesStore ==
    (Ready /\ net = <<>> /\ scenarioLoadError = Null) =>
        /\ scenarios = StoreContents
        /\ FromCurrentNamespace(scenarios)

\* C6: save, load-into-inputs and delete can be invoked only when the
\* controller is Ready for the current mode: the Save button is enabled, and
\* the Load and Remove buttons of an entry are rendered, only then.
C6_OperationsOnlyWhenReady ==
    ~EffectsPending =>
        /\ canSaveScenario => Ready
        /\ (ListShown /\ scenarios # <<>>) => Ready

\* C4: while a save is pending (isSavingScenario), a further save
\* invocation is refused: at most one create request is ever in flight, it is
\* in flight exactly while isSavingScenario holds, no step taken while a
\* save is pending starts a create request or creates a local entry, and the
\* pending save creates at most one row and adds at most one list entry.
C4_SaveIsSingleFlight ==
    /\ [](NumSaves(net) <= 1 /\ (isSavingScenario <=> NumSaves(net) = 1))
    /\ [][isSavingScenario =>
            /\ NumSaves(net') <= NumSaves(net)
            /\ (clock' # clock => (db' # db /\ clock' = clock + 1))
            /\ \A i \in 1..Len(net) :
                  Settles(i, "save") => Len(scenarios') <= Len(scenarios) + 1]_vars

\* C4 witness: a save is pending in a mode that is otherwise ready to save,
\* and the Save button is disabled.
C4_Witness ==
    /\ isSavingScenario /\ ~canSaveScenario
    /\ ~EffectsPending /\ storageReady /\ used < MaxOps

\* C5 (flag): a list fetch whose active flag is still set is the fetch of the
\* current mode: the mode is authenticated, the fetch was sent under the
\* current identity and no later list fetch exists.
C5_ActiveIsCurrent ==
    ~EffectsPending =>
        \A i \in 1..Len(net) :
            (net[i].kind = "list" /\ net[i].active) =>
                /\ isAuthenticated
                /\ net[i].ident = session.id
                /\ \A j \in 1..Len(net) : (j > i) => net[j].kind # "list"

\* C5: when a list fetch that is not the current mode's (the mode changed
\* while it was in flight) settles, with success or failure, the scenario
\* list and the load error stay as they are.
C5_StaleFetchDiscarded ==
    /\ []C5_ActiveIsCurrent
    /\ [][\A i \in 1..Len(net) :
            (Settles(i, "list") /\ ~net[i].active) =>
                /\ scenarios' = scenarios
                /\ scenarioLoadError' = scenarioLoadError]_vars

\* C5 witness: guest mode after a switch away from authenticated mode, the
\* fetch of that mode settled and gone, its loading flag never cleared.
C5_Witness ==
    /\ ~isAuthenticated /\ ~EffectsPending
    /\ isLoadingScenarios
    /\ \A i \in 1..Len(net) : net[i].kind # "list"

\* The request a remote handleSaveScenario(a) sends carries the trimmed name
\* and the inputs current at the invocation.
SaveSendsWhatWasGiven ==
    \A a \in PromptAnswers :
        (HandleSaveScenario(a) /\ Len(net') > Len(net)) =>
            /\ SameText(net'[Len(net')].name, Trim(a.text))
            /\ net'[Len(net')].inputs = inputs

\* After a successful local save the first entry has the name given to the
\* store and the inputs current at the invocation.
LocalSaveIsFirst ==
    \A a \in PromptAnswers :
        (HandleSaveScenario(a) /\ clock' # clock) =>
            /\ scenarios' # <<>>
            /\ SameText(scenarios'[1].name, Trim(a.text))
            /\ scenarios'[1].inputs = inputs

\* C7 (as claimed): after a successful save in either mode the first entry
\* of the list has the name given to the store and the inputs current when
\* save was invoked.
C7_SavedFirstAsGiven ==
    [][ /\ SaveSendsWhatWasGiven
        /\ LocalSaveIsFirst
        /\ \A i \in 1..Len(net) :
              (Settles(i, "save") /\ Ok(net[i].resp)) =>
                  /\ scenarios' # <<>>
                  /\ SameText(scenarios'[1].name, net[i].name)
                  /\ scenarios'[1].inputs = net[i].inputs ]_vars

\* C7 (amended): as claimed, except that in authenticated mode the name of the
\* first entry is the name given to the store cut to its first 80 characters.
C7_SavedFirstCutTo80 ==
    [][ /\ SaveSendsWhatWasGiven
        /\ LocalSaveIsFirst
        /\ \A i \in 1..Len(net) :
              (Settles(i, "save") /\ Ok(net[i].resp)) =>
                  /\ scenarios' # <<>>
                  /\ IsCutTo(scenarios'[1].name, net[i].name, MaxNameLen)
                  /\ scenarios'[1].inputs = net[i].inputs ]_vars

\* C7 witness: a remote save of a name of more than 80 characters succeeded
\* and its scenario, the name cut to 80, is first in a list of several.
C7_Witness ==
    /\ Len(scenarios) > 1
    /\ origin[scenarios[1].id][1] = "user"
    /\ StrLen(scenarios[1].name) = MaxNameLen

\* C8: after a successful delete(id), remote or local, the list has no entry
\* of that id and every other entry is still there, unchanged and in the
\* same relative order.
C8_DeleteRemovesOnlyThatId ==
    [][ /\ \A i \in 1..Len(net) :
              (Settles(i, "delete") /\ Ok(net[i].resp)) =>
                  Removed(scenarios, scenarios', net[i].id)
        /\ \A id \in Ids :
              (HandleDeleteScenario(id, TRUE) /\ ~isAuthenticated) =>
                  Removed(scenarios, scenarios', id) ]_vars

\* C8 witness: a scenario of the remote store was deleted there and is gone
\* from the list, which still shows another entry.
C8_Witness ==
    \E id \in Ids :
        /\ origin[id][1] = "user"
        /\ \A r \in db : r.id # id
        /\ id \notin ShownIds
        /\ scenarios # <<>>
        /\ scenarioError = Null

\* C9: when a remote save fails (non-success status or transport failure)
\* the list and the inputs are unchanged, the save error is set, the load
\* error is left as it is, and the in-flight guard is released: a ready
\* controller accepts a save again.
C9_FailedSaveChangesNothing ==
    [][\A i \in 1..Len(net) :
          (Settles(i, "save") /\ ~Ok(net[i].resp)) =>
              /\ scenarios' = scenarios
              /\ inputs' = inputs
              /\ scenarioError' = SaveFailed
              /\ scenarioLoadError' = scenarioLoadError
              /\ ~isSavingScenario'
              /\ (isAuthenticated \/ storageReady) => canSaveScenario']_vars

\* C9 witness: a save has failed, its error is shown and saving is possible
\* again.
C9_Witness ==
    /\ scenarioError = SaveFailed
    /\ ~isSavingScenario /\ canSaveScenario /\ ~EffectsPending

\* C10: a remote delete removes the entry from the in-memory list only when
\* the server answers with a success status: the invocation removes nothing,
\* a settled success removes the entries of that id, and on 404, 401 or a
\* transport failure the list is unchanged and the delete error is set.
C10_RemoteDeleteOnlyOnSuccess ==
    [][ /\ \A id \in Ids :
              (HandleDeleteScenario(id, TRUE) /\ isAuthenticated) =>
                  scenarios' = scenarios
        /\ \A i \in 1..Len(net) :
              Settles(i, "delete") =>
                  IF Ok(net[i].resp)
                  THEN \A k \in 1..Len(scenarios') :
                          scenarios'[k].id # net[i].id
                  ELSE /\ net[i].resp.status \in {0, 401, 404}
                       /\ scenarios' = scenarios
                       /\ scenarioError' = DeleteFailed ]_vars

\* C10 witness: a remote delete has failed; the entry it was meant to remove
\* is still shown together with the error.
C10_Witness ==
    /\ scenarioError = DeleteFailed
    /\ scenarios # <<>>
    /\ \A i \in 1..Len(net) : net[i].kind # "delete"

\* C11: when the list fetch of the current mode fails (a non-success status
\* or a transport failure), the list becomes empty, the load error is set and
\* the controller is ready: storageReady holds, the loading flag is cleared,
\* no list fetch of the mode is outstanding and the load effect has nothing
\* left to run.  The next run of the load effect clears the load error.
C11_FailedFetchEndsReadyEmpty ==
    /\ [][\A i \in 1..Len(net) :
             (Settles(i, "list") /\ net[i].active /\ ~Ok(net[i].resp)) =>
                 /\ net[i].resp.status \in {0, 401}
                 /\ scenarios' = <<>>
                 /\ scenarioLoadError' = LoadFailed
                 /\ storageReady' /\ ~isLoadingScenarios'
                 /\ ~Loading'
                 /\ ranLoadDeps' = << LoadDeps' >>]_vars
    /\ [][(RunEffects /\ ranLoadDeps # << LoadDeps >>) =>
             scenarioLoadError' = Null]_vars

\* C11 witness: signed in from a guest list of one entry (still in device
\* storage), the fetch has failed: the list is empty, the error is shown and
\* the controller is ready.
C11_Witness ==
    /\ isAuthenticated /\ Ready
    /\ scenarioLoadError = LoadFailed
    /\ scenarios = <<>>
    /\ ~isLoadingScenarios
    /\ localStorage[GuestKey].json # <<>>

\* Request i is handled by its route in this step.
Handled(i) ==
    /\ i \in 1..Len(net)
    /\ Len(net') = Len(net)
    /\ net[i].resp = Pending
    /\ net'[i].resp # Pending

Owned(rows, u) == { r \in rows : r.userId = u }

\* body is exactly the rows of u, each as serialize delivers it, newest first.
OwnedNewestFirst(body, rows, u) ==
    /\ Len(body) = Cardinality(Owned(rows, u))
    /\ \A r \in Owned(rows, u) : \E k \in 1..Len(body) : body[k] = serialize(r)
    /\ \A j, k \in 1..Len(body) :
          j < k => body[j].createdAt.t > body[k].createdAt.t

\* C12: the remote resource isolates identities.  A request that is handled
\* leaves every row of another identity in place and creates rows of the
\* requester only; GET answers 200 with exactly the requester's rows, newest
\* first; DELETE of an id the requester owns no row of answers 404 (401
\* without a session) and removes nothing, and otherwise removes the
\* requester's row of that id alone; a request without an identity is
\* answered 401 and changes no row.
C12_RoutesIsolateIdentities ==
    [][\A i \in 1..Len(net) :
          Handled(i) =>
            LET req == net[i]
                resp == net'[i].resp
            IN  /\ \A r \in db : r.userId # req.ident => r \in db'
                /\ \A r \in db' \ db : r.userId = req.ident
                /\ (req.kind = "list" /\ Ok(resp)) =>
                       /\ db' = db
                       /\ OwnedNewestFirst(resp.body, db, req.ident)
                /\ (req.kind = "save" /\ Ok(resp)) =>
                       /\ \E r \in db' \ db : resp.body = serialize(r)
                       /\ db \subseteq db'
                /\ (req.kind = "delete" /\ resp.status # 0) =>
                       IF \E r \in Owned(db, req.ident) : r.id = req.id
                       THEN \/ resp.status = 401 /\ db' = db
                            \/ /\ resp = Response(200, req.id)
                               /\ db' = { r \in db : ~(r.id = req.id /\
                                                       r.userId = req.ident) }
                       ELSE resp.status \in {401, 404} /\ db' = db
                /\ resp.status \in {0, 401} => db' = db
                /\ req.ident = None =>
                       resp.status \in {0, 401} /\ resp.body = NoBody]_vars

\* C12 witness: both identities own a row, and a DELETE by one of them for
\* the id of the other's row has been answered 404 with that row still there.
C12_Witness ==
    /\ net # <<>>
    /\ net[1].kind = "delete" /\ net[1].resp = notFound
    /\ \E r \in db : r.id = net[1].id /\ r.userId # net[1].ident
    /\ \E r \in db : r.userId = net[1].ident

ValidName(name) == StrLen(name) >= 1 /\ StrLen(name) <= MaxNameLen

\* C13: every scenario that save creates, in guest mode as well as in
\* authenticated mode, has a non-empty name of at most 80 characters: every
\* entry of the list, every row of the remote store and every entry in device
\* storage has such a name.
C13_NamesWithin80 ==
    /\ \A i \in 1..Len(scenarios) : ValidName(scenarios[i].name)
    /\ \A r \in db : ValidName(r.name)
    /\ \A k \in StorageKeys :
          \A i \in 1..Len(localStorage[k].json) :
              ValidName(localStorage[k].json[i].name)

\* The first k elements of a list (all of them when it has fewer).
FirstOf(list, k) == SubSeq(list, 1, IF Len(list) < k THEN Len(list) ELSE k)

\* This step is a guest-mode save that creates a scenario.
GuestSaves ==
    /\ ~isAuthenticated
    /\ clock' # clock
    /\ \E a \in PromptAnswers : HandleSaveScenario(a)

\* Device storage under the active namespace holds exactly the list.
StorageHoldsList ==
    /\ localStorage[storageKey] = JSONStringify(scenarios)
    /\ LocalList(localStorage[storageKey], clock) = scenarios

\* C14: a guest-mode save on a list L yields the new scenario followed by
\* the entries of L, cut to its first 10 elements, so a list of at most 10
\* entries; the effects of that render then write exactly that list to device
\* storage under the active namespace, which holds the list whenever the
\* effects of a ready guest-mode render have run.
C14_GuestSavePrependsCapsPersists ==
    /\ [][GuestSaves =>
            /\ scenarios' # <<>>
            /\ scenarios'[1].id \notin ShownIds
            /\ scenarios' = FirstOf(<< scenarios'[1] >> \o scenarios,
                                    LocalListCap)
            /\ Len(scenarios') <= LocalListCap
            /\ EffectsPending']_vars
    /\ [][(RunEffects /\ ~isAuthenticated /\ storageReady) =>
            localStorage'[storageKey] = JSONStringify(scenarios)]_vars
    /\ []((~isAuthenticated /\ storageReady /\ ~EffectsPending) =>
            StorageHoldsList)

\* C14 witness: a guest whose list was full has saved: the list has 10
\* entries, the new one first and the oldest gone, and device storage holds
\* that list.
C14_Witness ==
    /\ ~isAuthenticated /\ storageReady /\ ~EffectsPending
    /\ Len(scenarios) = LocalListCap
    /\ scenarios[1].id = clock /\ clock >= 1
    /\ (1 - LocalListCap) \notin ShownIds
    /\ StorageHoldsList

\* The payload under the active namespace is missing or cannot be read.
Unreadable == localStorage[storageKey].kind \in {"absent", "malformed"}

C16_OneSnapshotPerYear ==
    inputs.yearsToGrow >= 1 =>
        LET rows == summary.rows
        IN  /\ Len(rows) = inputs.yearsToGrow
            /\ \A k \in 1..Len(rows) : rows[k].year = k

\* C16 witness: the projection of a horizon of 20 years has 20 snapshots, the
\* last one of year 20.
C16_Witness ==
    /\ inputs.yearsToGrow = 20
    /\ Len(summary.rows) = 20
    /\ summary.rows[20].year = 20

\* C17: with monthly frequency and contributionAmount >= 0, the
\* totalContributions of the snapshot of year k is
\* startingAmount + 12 * k * contributionAmount, and the summary's
\* totalContributions is that of the last snapshot.
C17_MonthlyTotalContributions ==
    (inputs.contributionFrequency = "monthly" /\ inputs.contributionAmount >= 0)
    => LET memo == summary
           rows == memo.rows
       IN  /\ \A k \in 1..Len(rows) :
                 rows[k].totalContributions =
                     Num(inputs.startingAmount
                             + 12 * k * inputs.contributionAmount)
           /\ rows # <<>> =>
                 memo.totalContributions = rows[Len(rows)].totalContributions

\* C17 witness: the default inputs (10000 to start, 500 a month, 20 years):
\* 16000 after year 1 and 130000 in the summary.
C17_Witness ==
    /\ inputs = defaultInputs
    /\ summary.rows[1].totalContributions = Num(16000)
    /\ summary.totalContributions = Num(130000)

\* C18: when annualGrowthRate > 0, contributionAmount >= 0 and
\* startingAmount >= 0, the balance of each snapshot is at least the balance
\* of the previous year's snapshot, and the first snapshot's balance is at
\* least startingAmount (for every balance the projection is followed to).
C18_BalanceNeverFalls ==
    ( /\ inputs.annualGrowthRate > 0
      /\ inputs.contributionAmount >= 0
      /\ inputs.startingAmount >= 0 )
    => LET rows == summary.rows
       IN  \A k \in 1..Len(rows) :
              LET before == IF k = 1 THEN Num(inputs.startingAmount)
                            ELSE rows[k - 1].balance
              IN  Comparable(before, rows[k].balance) =>
                      AtMost(before, rows[k].balance)

\* C18 witness: a projection over two years whose balances are known and
\* grow: the first above the starting amount, the second above the first.
C18_Witness ==
    /\ inputs.annualGrowthRate > 0 /\ inputs.startingAmount > 0
    /\ inputs.contributionAmount > 0
    /\ Len(summary.rows) >= 2
    /\ Known(summary.rows[2].balance)
    /\ AtMost(Num(inputs.startingAmount + 1), summary.rows[1].balance)
    /\ AtMost(Plus(summary.rows[1].balance, Num(1)), summary.rows[2].balance)

\* C19: with annual frequency and contributionAmount >= 0, the contribution
\* of every year's snapshot is contributionAmount: one contribution a year.
C19_AnnualContributesOnce ==
    (inputs.contributionFrequency = "annual" /\ inputs.contributionAmount >= 0)
    => LET rows == summary.rows
       IN  \A k \in 1..Len(rows) :
              rows[k].contribution = Num(inputs.contributionAmount)

\* C19 witness: annual contributions of 500 over several years: the third
\* snapshot shows 500, and 1500 have been added to the starting amount.
C19_Witness ==
    /\ inputs.contributionFrequency = "annual"
    /\ inputs.contributionAmount = 500
    /\ Len(summary.rows) >= 3
    /\ summary.rows[3].contribution = Num(500)
    /\ summary.rows[3].totalContributions = Num(inputs.startingAmount + 1500)

\* The inflation factor when the loop over the years has ended.
FinalInflationFactor ==
    Years(inputs, Totals(inputs), 1, <<>>).totals.inflationFactor

\* C20: when inflationRate <= 0 the inflation factor stays 1, realBalance
\* equals balance in every snapshot and finalRealBalance equals finalBalance
\* (for every balance the projection is followed to).
C20_NoInflationNoDeflation ==
    inputs.inflationRate <= 0 =>
        LET memo == summary
            rows == memo.rows
        IN  /\ FinalInflationFactor = Num(1)
            /\ \A k \in 1..Len(rows) :
                  Known(rows[k].balance) => rows[k].realBalance = rows[k].balance
            /\ Known(memo.finalBalance) =>
                  memo.finalRealBalance = memo.finalBalance

\* C20 witness: a negative inflation rate and a balance that has grown over
\* two years: the real balance is that balance.
C20_Witness ==
    /\ inputs.inflationRate < 0
    /\ inputs.annualGrowthRate > 0
    /\ Len(summary.rows) >= 2
    /\ Known(summary.rows[2].balance)
    /\ summary.rows[2].balance.num > inputs.startingAmount
    /\ summary.rows[2].realBalance = summary.rows[2].balance
    /\ summary.finalRealBalance = summary.finalBalance

\* C21: when annualGrowthRate = 0 and contributionAmount = 0, the balance of
\* every snapshot is startingAmount, every snapshot's growth and contribution
\* are 0, and totalGrowth is 0.
C21_NothingInNothingOut ==
    (inputs.annualGrowthRate = 0 /\ inputs.contributionAmount = 0) =>
        LET memo == summary
            rows == memo.rows
        IN  /\ \A k \in 1..Len(rows) :
                  /\ rows[k].balance = Num(inputs.startingAmount)
                  /\ rows[k].growth = Num(0)
                  /\ rows[k].contribution = Num(0)
            /\ memo.totalGrowth = Num(0)

\* C21 witness: 10000 left alone for three years is 10000 in every snapshot.
C21_Witness ==
    /\ inputs.annualGrowthRate = 0 /\ inputs.contributionAmount = 0
    /\ inputs.startingAmount = 10000
    /\ Len(summary.rows) = 3
    /\ summary.rows[3].balance = Num(10000)
    /\ summary.totalGrowth = Num(0)

\* C22: when yearsToGrow <= 0 the projection has no snapshot, finalBalance
\* and finalRealBalance are startingAmount, totalContributions is
\* startingAmount and totalGrowth is 0.
C22_NoYearsNoSnapshots ==
    inputs.yearsToGrow <= 0 =>
        LET memo == summary
        IN  /\ memo.rows = <<>>
            /\ memo.finalBalance = Num(inputs.startingAmount)
            /\ memo.finalRealBalance = Num(inputs.startingAmount)
            /\ memo.totalContributions = Num(inputs.startingAmount)
            /\ memo.totalGrowth = Num(0)

\* C22 witness: a negative horizon with money, contributions, growth and
\* inflation all set: no snapshot, and the starting amount as final balance.
C22_Witness ==
    /\ inputs.yearsToGrow < 0
    /\ inputs.startingAmount = 10000 /\ inputs.contributionAmount > 0
    /\ inputs.annualGrowthRate > 0 /\ inputs.inflationRate > 0
    /\ summary.rows = <<>>
    /\ summary.finalRealBalance = Num(10000)

\* C23: load-into-inputs(id) with an id of the list sets the inputs to the
\* inputs stored in that scenario, every field of them; with an id that is
\* not in the list it leaves the inputs as they are; the list, device
\* storage and both errors are unchanged, and no effect is left to run.
C23_LoadReplacesInputsOnly ==
    /\ [][\A id \in Ids :
             HandleLoadScenario(id) =>
                 /\ \E k \in 1..Len(scenarios) :
                       /\ scenarios[k].id = id
                       /\ \A f \in DOMAIN inputs' :
                             inputs'[f] = scenarios[k].inputs[f]
                       /\ DOMAIN inputs' = DOMAIN scenarios[k].inputs
                 /\ UNCHANGED << scenarios, localStorage, scenarioError,
                                 scenarioLoadError >>
                 /\ ~EffectsPending']_vars
    /\ [](\A id \in Ids \ ShownIds :
             LoadedInputs(scenarios, inputs, id) = inputs)

\* C23 witness: the inputs are those of the second entry of the list and
\* differ from those of the first in the horizon, with every event of the
\* run used and device storage holding the list.
C23_Witness ==
    /\ ~isAuthenticated /\ ~EffectsPending /\ used = MaxOps
    /\ Len(scenarios) = 2
    /\ inputs = scenarios[2].inputs
    /\ inputs.yearsToGrow # scenarios[1].inputs.yearsToGrow
    /\ StorageHoldsList

\* C24: the loading indicator is set only while a list fetch of the current
\* mode is outstanding: whenever it is set in a render whose effects have
\* run, the mode is authenticated and its fetch has not settled; in
\* particular it is not set in a ready guest mode.
C24_IndicatorOnlyWhileLoading ==
    (~EffectsPending /\ isLoadingScenarios) => (isAuthenticated /\ Loading)

\* C25: on a mode transition the list is cleared at the moment the
\* controller enters Loading: the run of the load effect that starts the
\* fetch of the new mode leaves an empty list.
C25_ListClearedOnLoading ==
    [][(RunEffects /\ ranLoadDeps # << LoadDeps >> /\ isAuthenticated) =>
          (Loading' /\ scenarios' = <<>>)]_vars

\* C26: every value in device storage under a namespace key consists only
\* of scenarios read from or saved under that namespace, at every moment, and
\* storage is not written in authenticated mode.
C26_StorageHoldsOwnNamespaceOnly ==
    /\ [](\A k \in StorageKeys :
             \A i \in 1..Len(localStorage[k].json) :
                 origin[localStorage[k].json[i].id] = k)
    /\ [][isAuthenticated => localStorage' = localStorage]_vars

=============================================================================
